---- MODULE Spec2Model ----
(***************************************************************************)
(* Model of the background payment watcher of agentic-x402                 *)
(* (scripts/plugin/watcher.ts, class PaymentWatcher).                      *)
(*                                                                         *)
(* The watcher runs on the JavaScript event loop: a handler runs to its    *)
(* next `await` of an external call without interruption.  Every external  *)
(* call (discovery fetch, module load / client construction, balanceOf     *)
(* read, hook POST) suspends the cycle that made it; the cycle resumes in  *)
(* a later step with an outcome chosen by the environment.  A call that    *)
(* never completes is a cycle that is never resumed.                       *)
(***************************************************************************)
EXTENDS Integers, Sequences, FiniteSets, TLC

\* ---------------------------------------------------------------- bounds
MaxCycles == 2      \* poll() invocations that pass the guard
MaxBal == 2         \* largest raw balance the chain returns
MaxLinks == 1       \* longest `links` array in a discovery response
MaxLeaked == 1      \* intervals still armed after this.timer was overwritten
MaxRaw == 40        \* formatUnitsLocal on its own: raw values 0..MaxRaw and their multiples
MaxDec == 3         \* formatUnitsLocal on its own: decimals 0..MaxDec, and 6
MaxDistBal == 2     \* x402_distribute: largest small raw balance of the router
MaxAmount == 3      \* x402_distribute: largest small raw amount asked for
MaxStopped == 1     \* stop() calls counted on a watcher that is not running
MaxDropped == 1     \* timer callbacks counted while the guard is closed
MaxPrice == 2       \* x402_pay: largest price a 402 response asks for, in USD

\* ------------------------------------------------------ program constants
Decimals == 6       \* formatUnitsLocal(..., 6)
PollIntervalMs == 30000   \* options.pollIntervalMs ?? 30_000

VARIABLES
  registry,          \* trackedRouters: insertion-ordered Map, as a sequence of entries
  paymentsDetected,  \* this.paymentsDetected
  lastPollAt,        \* this.lastPollAt (0 = null)
  timer,             \* this.timer !== null
  leaked,            \* intervals still armed whose handle this.timer no longer holds
  isPolling,         \* this.isPolling
  seeded,            \* this.seeded
  notifyOnPayment,   \* this.notifyOnPayment
  clock,             \* wall clock; advances when a cycle begins
  cycles,            \* one record per poll() invocation that passed the guard
  event,             \* the PaymentEvent built by the latest detection (<<>> = none)
  deliveries,        \* number of POSTs issued to the hook endpoint
  io,                \* the external call that completed last and how it ended
  gatewayPort,       \* this.gatewayPort
  seen,              \* the discovery response refreshRouters was applied to (<<>> = none)
  status,            \* what the getStatus() call of the latest step returned (<<>> = no call)
  formatted,         \* the latest call of formatUnitsLocal on its own: value, decimals, text
  env,               \* process.env (the variables the config bridge maps) and the
                     \* plugin config applied last (<<>> = not created / none)
  pay,               \* the x402_pay call in progress or finished (<<>> = none)
  dropped,           \* timer callbacks that returned at the guard of poll(), when
                     \* they are counted (<<>> = not counted)
  stopped,           \* stop() calls that found this.timer null, when they are
                     \* counted (<<>> = not counted)
  dist               \* the x402_distribute call in progress or finished (<<>> = none)

vars == <<registry, paymentsDetected, lastPollAt, timer, leaked, isPolling,
          seeded, notifyOnPayment, clock, cycles, event, deliveries, io,
          gatewayPort, seen, status, formatted, env, pay, dropped, stopped, dist>>

\* the fields of the watcher and what is observed of it
watcherVars == <<registry, paymentsDetected, lastPollAt, timer, leaked, isPolling,
                 seeded, notifyOnPayment, clock, cycles, event, deliveries, io,
                 gatewayPort, seen, status>>

\* ------------------------------------------------------------ characters
DigitChar == <<"0", "1", "2", "3", "4", "5", "6", "7", "8", "9">>

RECURSIVE toString(_)
\* bigint.prototype.toString() of a non-negative value
toString(n) ==
  IF n < 10 THEN <<DigitChar[n + 1]>>
  ELSE toString(n \div 10) \o <<DigitChar[(n % 10) + 1]>>

RECURSIVE padStart(_, _, _)
padStart(s, len, ch) == IF Len(s) >= len THEN s ELSE padStart(<<ch>> \o s, len, ch)

\* fraction left as short as the trimming made it
padEnd_Mut(s, len, ch) == s

RECURSIVE padEnd(_, _, _)
padEnd(s, len, ch) == IF Len(s) >= len THEN s ELSE padEnd(s \o <<ch>>, len, ch)

\* String.prototype.slice(from, to) with 0-based, end-exclusive indices
slice(s, from, to) == SubSeq(s, from + 1, to)

\* fractional part left at its full width
trimTrailingZeros_Mut(s) == s

RECURSIVE trimTrailingZeros(_)
\* .replace(/0+$/, '')
trimTrailingZeros(s) ==
  IF Len(s) > 0 /\ s[Len(s)] = "0" THEN trimTrailingZeros(SubSeq(s, 1, Len(s) - 1))
  ELSE s

formatUnitsLocal(value, decimals) ==
  LET str == padStart(toString(value), decimals + 1, "0")
      intSlice == slice(str, 0, Len(str) - decimals)
      intPart == IF intSlice = <<>> THEN <<"0">> ELSE intSlice
      fracPart == slice(str, Len(str) - decimals, Len(str))
      trimmed == padEnd(trimTrailingZeros(fracPart), 2, "0")
  IN intPart \o <<".">> \o trimmed

LowerChar(c) ==
  CASE c = "A" -> "a" [] c = "B" -> "b" [] c = "C" -> "c"
    [] c = "D" -> "d" [] c = "E" -> "e" [] c = "F" -> "f"
    [] c = "X" -> "x" [] OTHER -> c

\* String.prototype.toLowerCase()
toLowerCase(s) == [i \in DOMAIN s |-> LowerChar(s[i])]

\* ------------------------------------------------------ environment inputs
\* the links the discovery feed can list: two casings of one address, a second
\* address, a link without a name and a link without a router_address; a
\* missing field of the payload is a missing record field
Links ==
  { [router_address |-> <<"0", "x", "A", "a">>, name |-> "Alpha"],
    [router_address |-> <<"0", "x", "a", "a">>],
    [router_address |-> <<"0", "x", "b", "b">>, name |-> "Beta"],
    [name |-> "Alpha"] }

LinkSeqs == UNION { [1..n -> Links] : n \in 0..MaxLinks }

\* outcomes of `fetch(apiUrl)` followed by `response.json()`
DiscoveryResponses ==
  { [type |-> "neterr"],
    [type |-> "http", ok |-> FALSE],
    [type |-> "http", ok |-> TRUE, body |-> "malformed"],
    [type |-> "http", ok |-> TRUE, body |-> "json", success |-> FALSE],
    [type |-> "http", ok |-> TRUE, body |-> "json", success |-> TRUE] }
  \cup { [type |-> "http", ok |-> TRUE, body |-> "json", success |-> TRUE, links |-> l] :
           l \in LinkSeqs }

\* outcomes of loading ../core/client.js, ../core/config.js and building the client
SetupResponses == { [ok |-> TRUE], [ok |-> FALSE] }

\* outcomes of publicClient.readContract(balanceOf)
BalanceResponses == { [ok |-> FALSE] } \cup { [ok |-> TRUE, balance |-> b] : b \in 0..MaxBal }

\* outcomes of `fetch(hookUrl, POST)`
HookResponses == { [type |-> "neterr"], [type |-> "http", ok |-> TRUE], [type |-> "http", ok |-> FALSE] }

\* ---------------------------------------------------------------- state
DoneCycle == [pc |-> "done", idx |-> 0, owner |-> "none"]

NoIo == [at |-> "none", kind |-> "none", val |-> 0]

InFlight == { c \in DOMAIN cycles : cycles[c].pc # "done" }

\* the ports the host hands to the plugin: none (0) and the port of a
\* running gateway
GatewayPorts == {0, 1}

\* the fields of a new PaymentWatcher({ gatewayPort: port, notifyOnPayment: notify, ... })
WatcherFields(port, notify) ==
  /\ registry = <<>>
  /\ paymentsDetected = 0
  /\ lastPollAt = 0
  /\ timer = FALSE
  /\ leaked = 0
  /\ isPolling = FALSE
  /\ seeded = FALSE
  /\ notifyOnPayment = notify
  /\ clock = 0
  /\ cycles = <<>>
  /\ event = <<>>
  /\ deliveries = 0
  /\ io = NoIo
  /\ gatewayPort = port
  /\ seen = <<>>
  /\ status = <<>>

\* the watcher is created; no tool has been called and nothing is exported
\* to the environment
Construct(port, notify) ==
  /\ WatcherFields(port, notify)
  /\ formatted = <<>>
  /\ env = <<>>
  /\ pay = <<>>
  /\ dropped = <<>>
  /\ stopped = <<>>
  /\ dist = <<>>

\* the watcher registered in a host whose gateway is up
Init == \E notify \in BOOLEAN : Construct(1, notify)

\* ------------------------------------------------------------- registry
\* lookup by the address as it was first written
has_Mut(reg, addr) == \E i \in DOMAIN reg : reg[i].address = addr

\* this.trackedRouters.has(addr)
has(reg, addr) == \E i \in DOMAIN reg : reg[i].key = addr

\* link.metadata?.name ?? 'Unnamed'
linkName(link) == IF "name" \in DOMAIN link THEN link.name ELSE "Unnamed"

\* the entry refreshRouters stores for a router it has not seen yet
newRouter(link) ==
  [ key |-> toLowerCase(link.router_address),
    address |-> link.router_address,
    name |-> linkName(link),
    lastBalance |-> 0,
    lastChecked |-> 0 ]

RECURSIVE addLinks(_, _)
\* the loop `for (const link of data.links)` of refreshRouters; `threw` is set
\* when link.router_address is undefined and .toLowerCase() raises a TypeError
addLinks(reg, links) ==
  IF links = <<>> THEN [reg |-> reg, threw |-> FALSE]
  ELSE LET link == Head(links) IN
       IF "router_address" \notin DOMAIN link THEN [reg |-> reg, threw |-> TRUE]
       ELSE IF has(reg, toLowerCase(link.router_address))
            THEN addLinks(reg, Tail(links))
            ELSE addLinks(Append(reg, newRouter(link)), Tail(links))

\* ------------------------------------------------------------ poll frame
\* guard dropped: every poll() invocation runs a cycle
PollGuard_Mut == TRUE

\* `if (this.isPolling) return;`
PollGuard == ~isPolling

\* guard cleared at the end of the try body instead of in finally
GuardAfterPoll_Mut(normal) == ~normal

\* value of this.isPolling after the try/catch/finally of poll()
GuardAfterPoll(normal) == FALSE

\* the cycle c leaves poll(): normally (lastPollAt is set) or through catch;
\* start() resumes after `await this.poll()` and sets seeded
EndCycle(c, normal) ==
  /\ cycles' = [cycles EXCEPT ![c] = DoneCycle]
  /\ isPolling' = GuardAfterPoll(normal)
  /\ lastPollAt' = IF normal THEN clock ELSE lastPollAt
  /\ seeded' = IF cycles[c].owner = "start" THEN TRUE ELSE seeded

\* the cycle c suspends at its next await
Suspend(c, pc, idx) ==
  /\ cycles' = [cycles EXCEPT ![c] = [pc |-> pc, idx |-> idx, owner |-> @.owner]]
  /\ UNCHANGED <<isPolling, lastPollAt, seeded>>

\* poll() passes the guard and suspends in refreshRouters at `await fetch(apiUrl)`
PollBegin(owner) ==
  /\ clock < MaxCycles
  /\ isPolling' = TRUE
  /\ clock' = clock + 1
  /\ cycles' = Append(cycles, [pc |-> "refresh", idx |-> 0, owner |-> owner])
  /\ event' = <<>>
  /\ io' = NoIo

\* ------------------------------------------------------------ lifecycle
\* one more call has returned at its first test (`if (this.isPolling) return;`
\* of poll(), `if (this.timer)` of stop()), when these are counted
Returned(n, max) ==
  IF n = <<>> THEN <<>>
  ELSE IF n[1] < max THEN <<n[1] + 1>> ELSE n

\* start() that leaves the timer as it finds it
SetInterval_Mut == timer

\* `this.timer = setInterval(() => this.poll(), this.pollIntervalMs)`: the
\* handle is not null
SetInterval == TRUE

\* start() that forgets what the watcher stored before
Start_Mut ==
  /\ timer => leaked < MaxLeaked
  /\ timer' = SetInterval
  /\ leaked' = IF timer THEN leaked + 1 ELSE leaked
  /\ IF PollGuard
     THEN /\ PollBegin("start")
          /\ seeded' = FALSE
          /\ registry' = [i \in DOMAIN registry |->
                            [registry[i] EXCEPT !.lastBalance = 0, !.lastChecked = 0]]
          /\ UNCHANGED lastPollAt
     ELSE /\ seeded' = TRUE
          /\ UNCHANGED <<isPolling, clock, cycles, event, io, lastPollAt, registry>>
  /\ UNCHANGED <<paymentsDetected, notifyOnPayment, deliveries>>
  /\ status' = <<>>
  /\ UNCHANGED <<gatewayPort, seen, formatted, env, pay, dropped, stopped, dist>>

\* start(): arm the interval (the handle of an interval armed earlier is
\* overwritten, the interval stays armed), run poll(), then seeded = true.
\* When poll() returns at its guard, start() resumes in the same turn of the
\* event loop.
Start ==
  /\ timer => leaked < MaxLeaked
  /\ timer' = SetInterval
  /\ leaked' = IF timer THEN leaked + 1 ELSE leaked
  /\ IF PollGuard
     THEN /\ PollBegin("start")
          /\ UNCHANGED <<seeded, lastPollAt>>
     ELSE /\ seeded' = TRUE
          /\ UNCHANGED <<isPolling, clock, cycles, event, io, lastPollAt>>
  /\ UNCHANGED <<registry, paymentsDetected, notifyOnPayment, deliveries>>
  /\ status' = <<>>
  /\ UNCHANGED <<gatewayPort, seen, formatted, env, pay, dropped, stopped, dist>>

\* stop() that also abandons the cycle in flight
Stop_Mut ==
  /\ timer' = FALSE
  /\ cycles' = [c \in DOMAIN cycles |-> DoneCycle]
  /\ isPolling' = FALSE
  /\ UNCHANGED <<registry, paymentsDetected, lastPollAt, leaked, seeded,
                 notifyOnPayment, clock, event, deliveries, io>>
  /\ status' = <<>>
  /\ stopped' = IF timer THEN stopped ELSE Returned(stopped, MaxStopped)
  /\ UNCHANGED <<gatewayPort, seen, formatted, env, pay, dropped, dist>>

\* stop(): `if (this.timer) { clearInterval(this.timer); this.timer = null; }`
Stop ==
  /\ timer' = FALSE
  /\ UNCHANGED <<registry, paymentsDetected, lastPollAt, leaked, isPolling, seeded,
                 notifyOnPayment, clock, cycles, event, deliveries, io>>
  /\ status' = <<>>
  /\ stopped' = IF timer THEN stopped ELSE Returned(stopped, MaxStopped)
  /\ UNCHANGED <<gatewayPort, seen, formatted, env, pay, dropped, dist>>


\* an armed interval fires: () => this.poll()
TimerFire ==
  /\ timer \/ leaked > 0
  /\ IF PollGuard
     THEN /\ PollBegin("timer")
          /\ UNCHANGED dropped
     ELSE /\ UNCHANGED <<isPolling, clock, cycles, event, io>>
          /\ dropped' = Returned(dropped, MaxDropped)
  /\ UNCHANGED <<registry, paymentsDetected, lastPollAt, timer, leaked, seeded,
                 notifyOnPayment, deliveries>>
  /\ status' = <<>>
  /\ UNCHANGED <<gatewayPort, seen, formatted, env, pay, stopped, dist>>

\* ---------------------------------------------------------- environment
\* how the discovery call ended, as far as the logs of the watcher tell
discoveryKind(r) ==
  IF r.type = "neterr" THEN "neterr"
  ELSE IF ~r.ok THEN "notok"
  ELSE IF r.body = "malformed" THEN "badjson"
  ELSE IF ~r.success THEN "nosuccess"
  ELSE IF "links" \notin DOMAIN r THEN "nolinks"
  ELSE IF \E n \in DOMAIN r.links : "router_address" \notin DOMAIN r.links[n] THEN "badlink"
  ELSE "links"

hookKind(r) == IF r.type = "neterr" THEN "neterr" ELSE IF r.ok THEN "ok" ELSE "notok"

\* the cycle c is suspended at the external call `pc`
Awaits(c, pc) ==
  /\ c \in DOMAIN cycles
  /\ cycles[c].pc = pc

\* -------------------------------------------------------- refreshRouters
\* refreshRouters that throws on every response it cannot use
refreshOutcome_Mut(reg, r) ==
  IF r.type = "neterr" THEN [reg |-> reg, threw |-> TRUE]
  ELSE IF ~r.ok THEN [reg |-> reg, threw |-> TRUE]
  ELSE IF r.body = "malformed" THEN [reg |-> reg, threw |-> TRUE]
  ELSE IF ~r.success \/ "links" \notin DOMAIN r THEN [reg |-> reg, threw |-> TRUE]
  ELSE addLinks(reg, r.links)

\* what refreshRouters does with the outcome r of the discovery call
refreshOutcome(reg, r) ==
  IF r.type = "neterr" THEN [reg |-> reg, threw |-> TRUE]
  ELSE IF ~r.ok THEN [reg |-> reg, threw |-> FALSE]
  ELSE IF r.body = "malformed" THEN [reg |-> reg, threw |-> TRUE]
  ELSE IF ~r.success \/ "links" \notin DOMAIN r THEN [reg |-> reg, threw |-> FALSE]
  ELSE addLinks(reg, r.links)

\* `if (this.trackedRouters.size === 0) return;` else the cycle loads the client
CheckBalancesEnter(c, reg) ==
  IF Len(reg) = 0 THEN EndCycle(c, TRUE) ELSE Suspend(c, "setup", 0)

\* the discovery call of the cycle c completes with r: refreshRouters runs to
\* its end or throws into the catch of poll(); then checkBalances is entered
RefreshRouters(c, r) ==
  /\ Awaits(c, "refresh")
  /\ io' = [at |-> "refresh", kind |-> discoveryKind(r), val |-> 0]
  /\ LET out == refreshOutcome(registry, r) IN
       /\ registry' = out.reg
       /\ IF out.threw THEN EndCycle(c, FALSE) ELSE CheckBalancesEnter(c, out.reg)
  /\ UNCHANGED <<paymentsDetected, timer, leaked, notifyOnPayment, clock, event,
                 deliveries>>
  /\ status' = <<>>
  /\ UNCHANGED <<gatewayPort, seen, formatted, env, pay, dropped, stopped, dist>>

\* --------------------------------------------------------- checkBalances
\* the imports and getClient()/getConfig()/getUsdcAddress() of checkBalances are
\* outside the per-router try: a failure there reaches the catch of poll()
CheckBalancesSetup(c, r) ==
  /\ Awaits(c, "setup")
  /\ io' = [at |-> "setup", kind |-> IF r.ok THEN "ok" ELSE "fail", val |-> 0]
  /\ IF r.ok THEN Suspend(c, "check", 1) ELSE EndCycle(c, FALSE)
  /\ UNCHANGED <<registry, paymentsDetected, timer, leaked, notifyOnPayment, clock,
                 event, deliveries>>
  /\ status' = <<>>
  /\ UNCHANGED <<gatewayPort, seen, formatted, env, pay, dropped, stopped, dist>>

\* loop that leaves after the first router
NextRouter_Mut(c) == EndCycle(c, TRUE)

\* the loop `for (const [, router] of this.trackedRouters)` moves on from idx
NextRouter(c) ==
  IF cycles[c].idx < Len(registry)
  THEN Suspend(c, "check", cycles[c].idx + 1)
  ELSE EndCycle(c, TRUE)

\* no per-router try: a failed read reaches the catch of poll()
CatchQueryError_Mut(c) == EndCycle(c, FALSE)

\* `catch (err)` of the per-router try: log a warning, go on with the next router
CatchQueryError(c) == NextRouter(c)

\* comparison that also fires on an unchanged balance
IsIncrease_Mut(balance, previous) == balance >= previous

\* `if (balance > previous)`
IsIncrease(balance, previous) == balance > previous

\* an increase counted twice
CountPayment_Twice(n) == n + 2

\* increment left out of the detection branch
CountPayment_Mut(n) == n

\* `this.paymentsDetected++`
CountPayment(n) == n + 1

\* the POST issued twice for one event
PostHook_Mut(n) == n + 2

\* sendHook issues one `fetch(hookUrl, { method: 'POST', ... })` for the event
PostHook(n) == n + 1

\* the event is delivered whatever the option says
ShouldNotify_Mut == TRUE

\* `if (this.notifyOnPayment)`
ShouldNotify == notifyOnPayment

\* a failed read stored as a zero balance
FailedRead_Mut(reg, i) == [reg EXCEPT ![i].lastBalance = 0]

\* the catch of the per-router try writes no field of the router
FailedRead(reg, i) == reg

\* balance stored only when it has grown
StoredBalance_Mut(previous, balance) == IF balance > previous THEN balance ELSE previous

\* `router.lastBalance = balance`
StoredBalance(previous, balance) == balance

\* the PaymentEvent of a detected increase
PaymentEvent(router, previous, balance) ==
  [ routerAddress |-> router.address,
    routerName |-> router.name,
    previousBalance |-> formatUnitsLocal(previous, Decimals),
    newBalance |-> formatUnitsLocal(balance, Decimals),
    increase |-> formatUnitsLocal(balance - previous, Decimals),
    detectedAt |-> clock ]

\* the balanceOf read of router idx completes with r
SampleRouter(c, r) ==
  /\ Awaits(c, "check")
  /\ LET i == cycles[c].idx
         router == registry[i]
     IN
       IF ~r.ok
       THEN /\ io' = [at |-> "check", kind |-> "fail", val |-> 0]
            /\ CatchQueryError(c)
            /\ registry' = FailedRead(registry, i)
            /\ UNCHANGED <<paymentsDetected, event, deliveries>>
       ELSE LET previous == router.lastBalance IN
            /\ io' = [at |-> "check", kind |-> "ok", val |-> r.balance]
            /\ registry' = [registry EXCEPT
                             ![i].lastBalance = StoredBalance(previous, r.balance),
                             ![i].lastChecked = clock]
            /\ IF seeded /\ IsIncrease(r.balance, previous)
               THEN /\ paymentsDetected' = CountPayment(paymentsDetected)
                    /\ event' = <<PaymentEvent(router, previous, r.balance)>>
                    /\ IF ShouldNotify
                       THEN /\ deliveries' = PostHook(deliveries)
                            /\ Suspend(c, "hook", i)
                       ELSE /\ NextRouter(c)
                            /\ UNCHANGED deliveries
               ELSE /\ NextRouter(c)
                    /\ UNCHANGED <<paymentsDetected, event, deliveries>>
  /\ UNCHANGED <<timer, leaked, notifyOnPayment, clock>>
  /\ status' = <<>>
  /\ UNCHANGED <<gatewayPort, seen, formatted, env, pay, dropped, stopped, dist>>

\* the POST of sendHook completes with r: every outcome is logged and absorbed
SendHookReturns(c, r) ==
  /\ Awaits(c, "hook")
  /\ io' = [at |-> "hook", kind |-> hookKind(r), val |-> 0]
  /\ NextRouter(c)
  /\ UNCHANGED <<registry, paymentsDetected, timer, leaked, notifyOnPayment, clock,
                 event, deliveries>>
  /\ status' = <<>>
  /\ UNCHANGED <<gatewayPort, seen, formatted, env, pay, dropped, stopped, dist>>

\* -------------------------------------------------------- specification
Next ==
  \/ Start
  \/ Stop
  \/ TimerFire
  \/ \E c \in 1..MaxCycles : \E r \in DiscoveryResponses : RefreshRouters(c, r)
  \/ \E c \in 1..MaxCycles : \E r \in SetupResponses : CheckBalancesSetup(c, r)
  \/ \E c \in 1..MaxCycles : \E r \in BalanceResponses : SampleRouter(c, r)
  \/ \E c \in 1..MaxCycles : \E r \in HookResponses : SendHookReturns(c, r)

Spec == Init /\ [][Next]_vars

\* --------------------------------------------- the registry on its own
\* refreshRouters applied to the discovery response r of a new cycle
Discover(r) ==
  /\ clock < MaxCycles
  /\ clock' = clock + 1
  /\ registry' = refreshOutcome(registry, r).reg
  /\ seen' = <<r>>
  /\ status' = <<>>
  /\ UNCHANGED <<paymentsDetected, lastPollAt, timer, leaked, isPolling, seeded,
                 notifyOnPayment, cycles, event, deliveries, io, gatewayPort,
                 formatted, env, pay, dropped, stopped, dist>>

\* `router.lastBalance = balance; router.lastChecked = Date.now();` for router i
Store(i, balance) ==
  /\ i \in DOMAIN registry
  /\ clock > 0
  /\ registry' = [registry EXCEPT ![i].lastBalance = balance, ![i].lastChecked = clock]
  /\ status' = <<>>
  /\ UNCHANGED <<paymentsDetected, lastPollAt, timer, leaked, isPolling, seeded,
                 notifyOnPayment, clock, cycles, event, deliveries, io, gatewayPort, seen,
                 formatted, env, pay, dropped, stopped, dist>>

\* ------------------------------------------- formatUnitsLocal on its own
\* raw values: the small ones, their multiples by 1000 (fractions that end in
\* zeros), and values of a 6-decimal token around and above one whole unit
RawValues ==
  (0..MaxRaw) \cup { 1000 * v : v \in 0..MaxRaw }
    \cup { 999999, 1000000, 5000000, 5123000 }

DecimalsValues == (0..MaxDec) \cup { Decimals }

\* formatUnitsLocal(value, decimals) is called
Format(value, decimals) ==
  /\ formatted' = <<[ value |-> value, decimals |-> decimals,
                     text |-> formatUnitsLocal(value, decimals) ]>>
  /\ UNCHANGED <<watcherVars, env, pay, dropped, stopped, dist>>

FormatNext == \E value \in RawValues : \E decimals \in DecimalsValues : Format(value, decimals)

FormatInit == Construct(1, TRUE)

FormatSpec == FormatInit /\ [][FormatNext]_vars

\* ---------------------------------------------------- the x402_pay tool
\* the value parseFloat returns for a string that does not start with a number;
\* every comparison with it is false
NaN == -1

\* a > b on JavaScript numbers
jsGreater(a, b) == a # NaN /\ b # NaN /\ a > b

\* .replace(/[$,]/g, '')
stripDollarComma(s) == SelectSeq(s, LAMBDA ch : ch \notin {"$", ","})

RECURSIVE leadingDigits(_, _)
\* the value of the digits a string starts with, NaN when it starts with none
leadingDigits(s, acc) ==
  IF s # <<>> /\ \E d \in 0..9 : DigitChar[d + 1] = Head(s)
  THEN leadingDigits(Tail(s),
         10 * (IF acc = NaN THEN 0 ELSE acc)
           + (CHOOSE d \in 0..9 : DigitChar[d + 1] = Head(s)))
  ELSE acc

\* parseFloat on the strings of PriceStrings (no sign, no fraction, no exponent)
parseFloat(s) == leadingDigits(s, NaN)

\* how a 402 response can write its price: bare, with a dollar sign, or after
\* a currency code
PriceStrings ==
  UNION { { toString(p), <<"$">> \o toString(p), <<"U", "S", "D", " ">> \o toString(p) } :
            p \in 0..MaxPrice }

\* outcomes of the probe `fetch(url, ...)`: it rejects, it answers with another
\* status than 402, or with 402 and payment info that has a price or has none
ProbeResponses ==
  { [type |-> "neterr"], [type |-> "http", status |-> 200], [type |-> "http", status |-> 402] }
    \cup { [type |-> "http", status |-> 402, price |-> s] : s \in PriceStrings }

\* outcomes of client.fetchWithPayment
PaidResponses == { [type |-> "neterr"], [type |-> "http", ok |-> TRUE], [type |-> "http", ok |-> FALSE] }

\* params.maxPaymentUsd: absent (<<>>) or a number
MaxParams == { <<>> } \cup { <<m>> : m \in 0..MaxPrice }

\* client.config.maxPaymentUsd
ConfigMaxes == 1..MaxPrice

\* String(accepts?.[0]?.price ?? accepts?.[0]?.maxAmountRequired ?? '0')
priceStr(r) == IF "price" \in DOMAIN r THEN r.price ELSE <<"0">>

\* maxPaymentUsd ?? client.config.maxPaymentUsd
effectiveMax(maxPaymentUsd, configMax) ==
  IF maxPaymentUsd # <<>> THEN maxPaymentUsd[1] ELSE configMax

\* execute(params) is called and suspends at the probe; getClient() can throw
PayExecute(maxPaymentUsd, dryRun, configMax, clientOk) ==
  /\ IF pay = <<>> THEN TRUE ELSE pay[1].pc \in {"returned", "threw"}
  /\ pay' = <<[ pc |-> IF clientOk THEN "probe" ELSE "threw",
               maxPaymentUsd |-> maxPaymentUsd,
               dryRun |-> dryRun,
               configMax |-> configMax,
               probe |-> [type |-> "none"],
               priceNum |-> 0,
               payments |-> 0,
               paid |-> FALSE ]>>
  /\ UNCHANGED <<watcherVars, formatted, env, dropped, stopped, dist>>

\* limit test that lets everything through
ExceedsMax_Mut(priceNum, max) == FALSE

\* `if (priceNum > effectiveMax)`
ExceedsMax(priceNum, max) == jsGreater(priceNum, max)

\* the probe completes with r: return for a status other than 402, for a price
\* above the limit and for a dry run; otherwise call client.fetchWithPayment
PayProbeReturns(r) ==
  /\ pay # <<>>
  /\ pay[1].pc = "probe"
  /\ LET p == pay[1]
         priceNum == parseFloat(stripDollarComma(priceStr(r)))
     IN pay' =
          IF r.type = "neterr" THEN <<[p EXCEPT !.pc = "threw", !.probe = r]>>
          ELSE IF r.status # 402 THEN <<[p EXCEPT !.pc = "returned", !.probe = r]>>
          ELSE IF ExceedsMax(priceNum, effectiveMax(p.maxPaymentUsd, p.configMax))
            THEN <<[p EXCEPT !.pc = "returned", !.probe = r, !.priceNum = priceNum]>>
          ELSE IF p.dryRun
            THEN <<[p EXCEPT !.pc = "returned", !.probe = r, !.priceNum = priceNum]>>
          ELSE <<[p EXCEPT !.pc = "paying", !.probe = r, !.priceNum = priceNum,
                           !.payments = @ + 1]>>
  /\ UNCHANGED <<watcherVars, formatted, env, dropped, stopped, dist>>

\* client.fetchWithPayment completes with r: paid: true only for an ok response
PayFetchReturns(r) ==
  /\ pay # <<>>
  /\ pay[1].pc = "paying"
  /\ pay' = IF r.type = "neterr" THEN <<[pay[1] EXCEPT !.pc = "threw"]>>
            ELSE <<[pay[1] EXCEPT !.pc = "returned", !.paid = r.ok]>>
  /\ UNCHANGED <<watcherVars, formatted, env, dropped, stopped, dist>>

PayNext ==
  \/ \E maxPaymentUsd \in MaxParams : \E dryRun \in BOOLEAN :
       \E configMax \in ConfigMaxes : \E clientOk \in BOOLEAN :
         PayExecute(maxPaymentUsd, dryRun, configMax, clientOk)
  \/ \E r \in ProbeResponses : PayProbeReturns(r)
  \/ \E r \in PaidResponses : PayFetchReturns(r)

PayInit == Construct(1, TRUE)

PaySpec == PayInit /\ [][PayNext]_vars

\* ------------------------------------------------ the x402_distribute tool
\* BigInt of a string of digits
RECURSIVE BigInt(_)
BigInt(s) ==
  IF s = <<>> THEN 0
  ELSE 10 * BigInt(SubSeq(s, 1, Len(s) - 1))
         + (CHOOSE d \in 0..9 : DigitChar[d + 1] = s[Len(s)])

\* viem's parseUnits(value, decimals) on an unsigned decimal string whose
\* fraction has at most `decimals` digits: split at the point, drop the
\* trailing zeros of the fraction, pad it to `decimals` digits and read
\* integer and fraction as one integer
parseUnits(value, decimals) ==
  LET dots == { i \in DOMAIN value : value[i] = "." }
      dot == IF dots = {} THEN Len(value) + 1 ELSE CHOOSE i \in dots : TRUE
      integer == SubSeq(value, 1, dot - 1)
      fraction == IF dots = {} THEN <<"0">> ELSE SubSeq(value, dot + 1, Len(value))
  IN BigInt(integer \o padEnd(trimTrailingZeros(fraction), decimals, "0"))

\* params.routerAddress, as far as the test of execute() reads it
RouterAddresses == [ startsWith0x : BOOLEAN, length : {41, 42} ]

\* params.amount: absent (<<>>), the empty string, whole USDC amounts and
\* amounts of a few raw units
AmountParams ==
  { <<>>, << <<>> >>, << <<"0">> >>, << <<"1">> >>, << <<"1", ".", "0", "0">> >> }
    \cup { << <<"0", ".">> \o padStart(toString(k), Decimals, "0") >> : k \in 0..MaxAmount }

\* outcomes of the balanceOf read of the router
DistBalanceResponses ==
  { [ok |-> FALSE] }
    \cup { [ok |-> TRUE, balance |-> b] : b \in (0..MaxDistBal) \cup {1000000} }

\* outcomes of walletClient.writeContract
WriteResponses == { [ok |-> FALSE], [ok |-> TRUE] }

\* outcomes of waitForTransactionReceipt
ReceiptResponses == { [ok |-> FALSE], [ok |-> TRUE, status |-> "success"],
                      [ok |-> TRUE, status |-> "reverted"] }

\* `if (specifiedAmount)`: a string is truthy when it is not empty
Specified(amount) == amount # <<>> /\ amount[1] # <<>>

\* execute(params) is called: it returns for an address that is not 0x + 40
\* characters, throws when the client cannot be built, else reads the balance
DistExecute(routerAddress, amount, clientOk) ==
  /\ IF dist = <<>> THEN TRUE ELSE dist[1].pc \in {"returned", "threw"}
  /\ dist' = <<[ pc |-> IF ~routerAddress.startsWith0x \/ routerAddress.length # 42
                          THEN "returned"
                        ELSE IF clientOk THEN "balance" ELSE "threw",
                 routerAddress |-> routerAddress,
                 amount |-> amount,
                 balance |-> <<>>,
                 submitted |-> <<>>,
                 success |-> FALSE ]>>
  /\ UNCHANGED <<watcherVars, formatted, env, pay, dropped, stopped>>

\* amount test that lets everything through
ExceedsBalance_Mut(distributeAmount, routerBalance) == FALSE

\* `if (distributeAmount > routerBalance)`
ExceedsBalance(distributeAmount, routerBalance) == distributeAmount > routerBalance

\* the balance read completes with r: return for a zero balance and for an
\* amount above the balance; otherwise call writeContract with the amount
DistBalanceReturns(r) ==
  /\ dist # <<>>
  /\ dist[1].pc = "balance"
  /\ LET d == dist[1]
         distributeAmount == IF Specified(d.amount) THEN parseUnits(d.amount[1], 6)
                             ELSE r.balance
     IN dist' =
          IF ~r.ok THEN <<[d EXCEPT !.pc = "threw"]>>
          ELSE IF r.balance = 0
            THEN <<[d EXCEPT !.pc = "returned", !.balance = <<r.balance>>]>>
          ELSE IF Specified(d.amount) /\ ExceedsBalance(distributeAmount, r.balance)
            THEN <<[d EXCEPT !.pc = "returned", !.balance = <<r.balance>>]>>
          ELSE <<[d EXCEPT !.pc = "write", !.balance = <<r.balance>>,
                           !.submitted = <<distributeAmount>>]>>
  /\ UNCHANGED <<watcherVars, formatted, env, pay, dropped, stopped>>

\* writeContract completes with r: it throws or returns the transaction hash
DistWriteReturns(r) ==
  /\ dist # <<>>
  /\ dist[1].pc = "write"
  /\ dist' = <<[dist[1] EXCEPT !.pc = IF r.ok THEN "receipt" ELSE "threw"]>>
  /\ UNCHANGED <<watcherVars, formatted, env, pay, dropped, stopped>>

\* waitForTransactionReceipt completes with r: success is receipt.status === 'success'
DistReceiptReturns(r) ==
  /\ dist # <<>>
  /\ dist[1].pc = "receipt"
  /\ dist' = IF ~r.ok THEN <<[dist[1] EXCEPT !.pc = "threw"]>>
             ELSE <<[dist[1] EXCEPT !.pc = "returned", !.success = (r.status = "success")]>>
  /\ UNCHANGED <<watcherVars, formatted, env, pay, dropped, stopped>>

DistNext ==
  \/ \E routerAddress \in RouterAddresses : \E amount \in AmountParams :
       \E clientOk \in BOOLEAN : DistExecute(routerAddress, amount, clientOk)
  \/ \E r \in DistBalanceResponses : DistBalanceReturns(r)
  \/ \E r \in WriteResponses : DistWriteReturns(r)
  \/ \E r \in ReceiptResponses : DistReceiptReturns(r)

DistInit == Construct(1, TRUE)

DistSpec == DistInit /\ [][DistNext]_vars

\* ----------------------------------------------------- the config bridge
\* const CONFIG_MAP: plugin config key -> environment variable
CONFIG_MAP ==
  [ evmPrivateKey |-> "EVM_PRIVATE_KEY",
    network |-> "X402_NETWORK",
    maxPaymentUsd |-> "X402_MAX_PAYMENT_USD",
    x402LinksApiUrl |-> "X402_LINKS_API_URL" ]

EnvVars == { CONFIG_MAP[k] : k \in DOMAIN CONFIG_MAP }

\* process.env[v]: undefined (<<>>), or a string, which may be empty
EnvValues == { <<>>, << <<>> >>, << <<"e">> >> }

\* a value of the plugin config under key k: undefined, null, or a value of
\* the type X402PluginConfig gives the key
ConfigValues(k) ==
  { [kind |-> "undefined"], [kind |-> "null"],
    IF k = "maxPaymentUsd" THEN [kind |-> "number", n |-> 10]
                           ELSE [kind |-> "string", s |-> <<"c">>] }

\* the plugin configs the host can pass
PluginConfigs ==
  { c \in [DOMAIN CONFIG_MAP ->
             UNION { ConfigValues(k) : k \in DOMAIN CONFIG_MAP }] :
      \A k \in DOMAIN CONFIG_MAP : c[k] \in ConfigValues(k) }

\* String(value)
String(value) == IF value.kind = "number" THEN toString(value.n) ELSE value.s

\* `process.env[envVar]` taken as a condition: defined and not the empty string
EnvIsSet(e, v) == e[v] # <<>> /\ e[v][1] # <<>>

\* the loop of applyConfigBridge over the entries of CONFIG_MAP
bridge(e, config) ==
  [ v \in EnvVars |->
      LET key == CHOOSE k \in DOMAIN CONFIG_MAP : CONFIG_MAP[k] = v
          value == config[key]
      IN IF value.kind \notin {"undefined", "null"} /\ ~EnvIsSet(e, v)
         THEN <<String(value)>>
         ELSE e[v] ]

\* applyConfigBridge(config)
ApplyConfigBridge(config) ==
  /\ env' = [vars |-> bridge(env.vars, config), applied |-> <<config>>]
  /\ UNCHANGED <<watcherVars, formatted, pay, dropped, stopped, dist>>

ConfigNext == \E config \in PluginConfigs : ApplyConfigBridge(config)

\* the process starts with any environment; the plugin is not registered yet
ConfigInit ==
  /\ WatcherFields(1, TRUE)
  /\ formatted = <<>>
  /\ pay = <<>>
  /\ dropped = <<>>
  /\ stopped = <<>>
  /\ dist = <<>>
  /\ env \in [vars : [EnvVars -> EnvValues], applied : { <<>> }]

ConfigSpec == ConfigInit /\ [][ConfigNext]_vars

\* ------------------------------------------------------------ scenarios
\* the raw balances of an account that holds 100 units and receives 50
ScenarioBalances == {100, 150}

ScenarioResponses ==
  { [ok |-> FALSE] } \cup { [ok |-> TRUE, balance |-> b] : b \in ScenarioBalances }

ScenarioNext ==
  \/ Start
  \/ Stop
  \/ TimerFire
  \/ \E c \in 1..MaxCycles : \E r \in DiscoveryResponses : RefreshRouters(c, r)
  \/ \E c \in 1..MaxCycles : \E r \in SetupResponses : CheckBalancesSetup(c, r)
  \/ \E c \in 1..MaxCycles : \E r \in ScenarioResponses : SampleRouter(c, r)
  \/ \E c \in 1..MaxCycles : \E r \in HookResponses : SendHookReturns(c, r)

\* the watcher created with notifyOnPayment = true, reading those balances
ScenarioInit == Construct(1, TRUE)

ScenarioSpec == ScenarioInit /\ [][ScenarioNext]_vars

\* ------------------------------------------------------- counted callbacks
\* the registered watcher on the chain of the scenarios, observed with a count
\* of the timer callbacks that return at the guard
DropInit ==
  /\ WatcherFields(1, TRUE)
  /\ formatted = <<>>
  /\ env = <<>>
  /\ pay = <<>>
  /\ dropped = <<0>>
  /\ stopped = <<>>
  /\ dist = <<>>

DropSpec == DropInit /\ [][ScenarioNext]_vars

\* the same watcher, observed with a count of the stop() calls that find the
\* timer handle null
StopInit ==
  /\ WatcherFields(1, TRUE)
  /\ formatted = <<>>
  /\ env = <<>>
  /\ pay = <<>>
  /\ dropped = <<>>
  /\ stopped = <<0>>
  /\ dist = <<>>

StopSpec == StopInit /\ [][ScenarioNext]_vars

\* ------------------------------------------------------------- progress
\* the external call a cycle is suspended on completes
CallReturns ==
  \/ \E c \in 1..MaxCycles : \E r \in DiscoveryResponses : RefreshRouters(c, r)
  \/ \E c \in 1..MaxCycles : \E r \in SetupResponses : CheckBalancesSetup(c, r)
  \/ \E c \in 1..MaxCycles : \E r \in ScenarioResponses : SampleRouter(c, r)
  \/ \E c \in 1..MaxCycles : \E r \in HookResponses : SendHookReturns(c, r)

\* every external call returns or fails in the end, and an interval that
\* stays armed fires again
Fairness == WF_vars(CallReturns) /\ WF_vars(TimerFire)

LiveInit == Construct(1, TRUE)

LiveSpec == LiveInit /\ [][ScenarioNext]_vars /\ Fairness

\* ------------------------------------------------- the ways to be created
\* register(): the service watcher gets api.gatewayPort as it is and
\* notifyOnPayment from the plugin configuration
RegisterInit == \E port \in GatewayPorts : \E notify \in BOOLEAN : Construct(port, notify)

\* `x402 watch`: gatewayPort: api.gatewayPort || 0, notifyOnPayment: api.gatewayPort > 0
WatchInit == \E port \in GatewayPorts : Construct(port, port > 0)

PortInit == RegisterInit \/ WatchInit

\* the watcher under every gateway port it can be created with
PortSpec == PortInit /\ [][Next]_vars

\* ------------------------------------------------------------ getStatus
\* Date.prototype.toISOString(): the instant written out
toISOString(t) == <<"T">> \o toString(t)

\* a router that was not checked yet is reported with the word 'never'
Never == <<"n", "e", "v", "e", "r">>

\* null in the status object
Null == <<>>

\* the object getStatus() builds from the fields of the watcher
getStatus ==
  [ running |-> timer,
    pollIntervalMs |-> PollIntervalMs,
    trackedRouters |->
      [ i \in DOMAIN registry |->
          [ address |-> registry[i].address,
            name |-> registry[i].name,
            balance |-> formatUnitsLocal(registry[i].lastBalance, Decimals),
            lastChecked |-> IF registry[i].lastChecked # 0
                            THEN toISOString(registry[i].lastChecked)
                            ELSE Never ] ],
    paymentsDetected |-> paymentsDetected,
    lastPollAt |-> IF lastPollAt # 0 THEN toISOString(lastPollAt) ELSE Null ]

\* getStatus() that stamps the time of the call on the watcher
GetStatus_Mut ==
  /\ status' = <<getStatus>>
  /\ lastPollAt' = clock
  /\ UNCHANGED <<registry, paymentsDetected, timer, leaked, isPolling, seeded,
                 notifyOnPayment, clock, cycles, event, deliveries, io, gatewayPort,
                 seen, formatted, env, pay, dropped, stopped, dist>>

\* a call of getStatus(), from the x402_watcher_status tool or the CLI
GetStatus ==
  /\ status' = <<getStatus>>
  /\ UNCHANGED <<registry, paymentsDetected, lastPollAt, timer, leaked, isPolling,
                 seeded, notifyOnPayment, clock, cycles, event, deliveries, io,
                 gatewayPort, seen, formatted, env, pay, dropped, stopped, dist>>

StatusNext == Next \/ GetStatus

\* the watcher with notifyOnPayment left at its default
StatusInit == Construct(1, TRUE)

\* the watcher and a caller that asks for its status at any time
StatusSpec == StatusInit /\ [][StatusNext]_vars

RegistryNext ==
  \/ \E r \in DiscoveryResponses : Discover(r)
  \/ \E i \in 1..(MaxCycles * MaxLinks) : \E b \in 0..MaxBal : Store(i, b)

\* every sequence of discovery responses, with balances stored in between
RegistrySpec == Init /\ [][RegistryNext]_vars

\* ------------------------------------------------- vocabulary of the claims
DigitVal(ch) == CHOOSE d \in 0..9 : DigitChar[d + 1] = ch

RECURSIVE DigitsVal(_)
DigitsVal(s) == IF s = <<>> THEN 0 ELSE 10 * DigitsVal(SubSeq(s, 1, Len(s) - 1)) + DigitVal(s[Len(s)])

RECURSIVE Pow10(_)
Pow10(n) == IF n = 0 THEN 1 ELSE 10 * Pow10(n - 1)

\* the raw value a formatted amount stands for: parse it and scale by 10^decimals
ParseUnits(str, decimals) ==
  LET dot == CHOOSE i \in DOMAIN str : str[i] = "."
      frac == SubSeq(str, dot + 1, Len(str))
  IN DigitsVal(SubSeq(str, 1, dot - 1)) * Pow10(decimals)
       + DigitsVal(frac) * Pow10(decimals - Len(frac))

\* this step is the cycle c resuming from the external call `pc`
Resumed(c, pc) == cycles[c].pc = pc /\ cycles'[c] # cycles[c]

\* this step is the cycle c resuming with a balance that was read successfully
SampledOk(c) == Resumed(c, "check") /\ io'.kind = "ok"

\* this step is the cycle c resuming with a failed balance read
SampleFailed(c) == Resumed(c, "check") /\ io'.kind = "fail"

\* the discovery call threw: network error or malformed payload
DiscoveryThrew(kind) == kind \in {"neterr", "badjson", "badlink"}

\* the POST to the hook endpoint failed: network error or non-2xx status
DeliveryFailed(kind) == kind \in {"neterr", "notok"}

\* after this step the cycle c has gone on past router i: the next read is
\* issued, or the loop is over and poll() has finished normally
WentOn(c, i) ==
  IF i < Len(registry)
  THEN cycles'[c].pc = "check" /\ cycles'[c].idx = i + 1
  ELSE cycles'[c].pc = "done" /\ lastPollAt' = clock /\ ~isPolling'

\* C1: the first successful balance sample of an account, whenever the account
\* was discovered, emits no increase event: paymentsDetected is not incremented
\* and no delivery is attempted.
C1_FirstSampleSilent ==
  [][\A c \in DOMAIN cycles :
       (SampledOk(c) /\ registry[cycles[c].idx].lastChecked = 0)
         => (paymentsDetected' = paymentsDetected /\ deliveries' = deliveries)]_vars

\* C2: once seeded, a successful sample of an account that was sampled before
\* emits an increase event if and only if the new balance is greater than the
\* stored one, and the event's increase is exactly the difference; a decrease
\* or an unchanged balance emits nothing.
C2_MonotonicDetection ==
  [][\A c \in DOMAIN cycles :
       (SampledOk(c) /\ seeded /\ registry[cycles[c].idx].lastChecked # 0)
         => LET router == registry[cycles[c].idx]
                previous == router.lastBalance
                balance == io'.val
            IN IF balance > previous
               THEN /\ paymentsDetected' = paymentsDetected + 1
                    /\ deliveries' = IF notifyOnPayment THEN deliveries + 1 ELSE deliveries
                    /\ event' # <<>>
                    /\ event'[1].routerAddress = router.address
                    /\ ParseUnits(event'[1].previousBalance, Decimals) = previous
                    /\ ParseUnits(event'[1].newBalance, Decimals) = balance
                    /\ ParseUnits(event'[1].increase, Decimals) = balance - previous
               ELSE /\ paymentsDetected' = paymentsDetected
                    /\ deliveries' = deliveries
                    /\ event' = event]_vars

\* an increase over a non-zero stored balance has been detected
C2_Witness ==
  /\ event # <<>>
  /\ ParseUnits(event[1].previousBalance, Decimals) > 0
  /\ paymentsDetected > 0

\* C3: at most one cycle is in flight at any time; no cycle begins while one is
\* executing; the guard goes from false to true exactly when a cycle begins and
\* from true to false exactly when that cycle ends.
C3_OneCycleInFlight ==
  /\ [](Cardinality(InFlight) <= 1 /\ (isPolling <=> InFlight # {}))
  /\ [][/\ isPolling => Len(cycles') = Len(cycles)
        /\ (~isPolling /\ isPolling') <=> Len(cycles') = Len(cycles) + 1
        /\ (isPolling /\ ~isPolling') <=> (\E c \in InFlight : cycles'[c].pc = "done")]_vars

\* a second cycle is executing after the first one has ended, timer armed
C3_Witness ==
  /\ Len(cycles) = 2
  /\ cycles[1].pc = "done"
  /\ cycles[2].pc # "done"
  /\ isPolling
  /\ timer

\* C4: when the discovery call of a cycle throws, the registry is left
\* unchanged and the cycle goes on to sample the registered accounts.
C4_DiscoveryThrowNotFatal ==
  [][\A c \in DOMAIN cycles :
       (Resumed(c, "refresh") /\ DiscoveryThrew(io'.kind))
         => /\ registry' = registry
            /\ IF Len(registry) = 0
               THEN cycles'[c].pc = "done" /\ lastPollAt' = clock
               ELSE cycles'[c].pc = "setup"]_vars

\* C5: a failed balance read of one account changes nothing and the cycle goes
\* on with the next account; an account read in a cycle in which an earlier
\* read failed is stored and classified as in any other cycle.
C5_PartialFailureIsolation ==
  [][\A c \in DOMAIN cycles :
       LET i == cycles[c].idx IN
       /\ SampleFailed(c)
            => /\ registry' = registry
               /\ paymentsDetected' = paymentsDetected
               /\ deliveries' = deliveries
               /\ WentOn(c, i)
       /\ (SampledOk(c) /\ \E k \in 1..(i - 1) : registry[k].lastChecked # clock)
            => LET previous == registry[i].lastBalance
                   balance == io'.val
               IN /\ registry'[i].lastBalance = balance
                  /\ registry'[i].lastChecked = clock
                  /\ \A k \in DOMAIN registry : k # i => registry'[k] = registry[k]
                  /\ paymentsDetected' =
                       IF seeded /\ balance > previous THEN paymentsDetected + 1
                       ELSE paymentsDetected]_vars

\* a cycle has finished normally in which the read of the first account failed
\* and the second account was sampled
C5_Witness ==
  /\ Len(registry) = 2
  /\ InFlight = {}
  /\ clock > 0
  /\ lastPollAt = clock
  /\ registry[1].lastChecked # clock
  /\ registry[2].lastChecked = clock
  /\ io.at = "check"
  /\ io.kind = "ok"

\* C6: the guard is false after a cycle has ended, on every exit path, and in
\* every reachable state the guard is true only while a cycle is in flight.
C6_GuardReleased ==
  /\ [](isPolling => InFlight # {})
  /\ [][\A c \in DOMAIN cycles :
          (cycles[c].pc # "done" /\ cycles'[c].pc = "done") => (~isPolling' /\ PollGuard')]_vars

\* a cycle has ended through the catch of poll() and the guard is open
C6_Witness ==
  /\ InFlight = {}
  /\ ~isPolling
  /\ \/ io.at = "refresh" /\ DiscoveryThrew(io.kind)
     \/ io.at = "setup" /\ io.kind = "fail"

\* C7: during the first cycle, run by start() on a fresh watcher, and when it
\* has completed, paymentsDetected is 0 and no delivery has been attempted.
C7_SeedingCycleSilent ==
  Len(cycles) = 1 => (paymentsDetected = 0 /\ deliveries = 0)

\* C8: seeded = true implies that at least one cycle has run to completion.
C8_SeededAfterFirstCycle ==
  seeded => \E c \in DOMAIN cycles : cycles[c].pc = "done"

\* C9: when a delivery is attempted the increase has been counted and the new
\* balance stored; a failed delivery changes neither, raises nothing, and the
\* cycle goes on with the remaining accounts.
C9_DeliveryFailureAbsorbed ==
  /\ [](\A c \in InFlight :
          cycles[c].pc = "hook"
            => /\ event # <<>>
               /\ deliveries >= 1
               /\ paymentsDetected >= deliveries
               /\ registry[cycles[c].idx].lastBalance
                    = ParseUnits(event[1].newBalance, Decimals))
  /\ [][\A c \in DOMAIN cycles :
          /\ (cycles[c].pc # "hook" /\ cycles'[c].pc = "hook")
               => paymentsDetected' = paymentsDetected + 1
          /\ (Resumed(c, "hook") /\ DeliveryFailed(io'.kind))
               => /\ paymentsDetected' = paymentsDetected
                  /\ registry' = registry
                  /\ WentOn(c, cycles[c].idx)]_vars

\* the POST of a counted event has failed with a non-2xx status and the cycle
\* has gone on
C9_Witness ==
  /\ io.at = "hook"
  /\ io.kind = "notok"
  /\ paymentsDetected >= 1

\* C10: a delivery that has not completed does not hold up the cycle: no cycle
\* is suspended on an outstanding POST with the guard closed.
C10_DeliveryDoesNotBlock ==
  \A c \in DOMAIN cycles : ~(cycles[c].pc = "hook" /\ isPolling)

\* C11: each detected increase causes at most one POST: a POST is issued only
\* in the step that counts an increase, and only one; the completion of a
\* delivery, failed or not, issues no further POST; a reported rise starts at
\* the stored balance and the stored balance moves to the end of the rise, so
\* that no later cycle reports it again.
C11_OneNotificationPerIncrease ==
  /\ [](deliveries <= paymentsDetected)
  /\ [][/\ deliveries' # deliveries
             => (deliveries' = deliveries + 1 /\ paymentsDetected' = paymentsDetected + 1)
        /\ \A c \in DOMAIN cycles :
             /\ Resumed(c, "hook") => deliveries' = deliveries
             /\ paymentsDetected' # paymentsDetected /\ Resumed(c, "check")
                  => LET i == cycles[c].idx IN
                     /\ ParseUnits(event'[1].previousBalance, Decimals) = registry[i].lastBalance
                     /\ ParseUnits(event'[1].newBalance, Decimals) = registry'[i].lastBalance
                     /\ registry'[i].lastBalance > registry[i].lastBalance]_vars

\* a rise has been reported once, and a later cycle has sampled the same
\* account at the same balance without a second POST
C11_Witness ==
  /\ deliveries = 1
  /\ paymentsDetected = 1
  /\ clock = 2
  /\ InFlight = {}
  /\ registry # <<>>
  /\ registry[1].lastChecked = clock
  /\ registry[1].lastBalance > 0

\* C12: start() arms the timer before it runs the first cycle: the timer is
\* armed in the step in which a cycle run by start() begins and whenever
\* start() is called; no step of a cycle, the ones that end it through the
\* catch of poll() included, changes the timer; only stop() disarms it.
C12_ArmedBeforeFirstCycle ==
  [][/\ (Len(cycles') > Len(cycles) /\ cycles'[Len(cycles')].owner = "start") => timer'
     /\ (leaked' > leaked \/ (~seeded /\ seeded' /\ cycles' = cycles))
          => timer'
     /\ \A c \in DOMAIN cycles : cycles'[c] # cycles[c] => timer' = timer
     /\ (timer /\ ~timer')
          => UNCHANGED <<registry, paymentsDetected, lastPollAt, leaked, isPolling,
                         seeded, notifyOnPayment, clock, cycles, event, deliveries, io>>]_vars

\* the first cycle, run by start(), has failed in discovery; start() has
\* returned and the timer is armed
C12_Witness ==
  /\ Len(cycles) = 1
  /\ cycles[1] = DoneCycle
  /\ io.at = "refresh"
  /\ DiscoveryThrew(io.kind)
  /\ lastPollAt = 0
  /\ seeded
  /\ timer
  /\ leaked = 0

\* C13: after stop() has returned, and until start() is called again, running
\* is false and no cycle begins, whatever calls of start() and stop() came
\* before: while the timer handle is null the only cycle that begins is the
\* one run by a call of start().
C13_StopDisarms ==
  [][(~timer /\ Len(cycles') > Len(cycles)) => cycles'[Len(cycles')].owner = "start"]_vars

\* C14: stop() does not cancel a cycle in flight: the call leaves the cycle,
\* the guard and the counters as they are, and a cycle resumed while the timer
\* is not armed stores the balances it reads, counts and delivers its
\* increases, goes on with its remaining accounts, and at its end sets
\* lastPollAt and releases the guard.
C14_StopKeepsCycle ==
  [][/\ (timer /\ ~timer')
          => UNCHANGED <<cycles, isPolling, registry, paymentsDetected, deliveries,
                         lastPollAt, seeded>>
     /\ \A c \in DOMAIN cycles :
          (~timer /\ cycles'[c] # cycles[c])
            => LET i == cycles[c].idx IN
               /\ SampledOk(c)
                    => LET previous == registry[i].lastBalance
                           balance == io'.val
                       IN /\ registry'[i].lastBalance = balance
                          /\ registry'[i].lastChecked = clock
                          /\ IF seeded /\ balance > previous
                             THEN /\ paymentsDetected' = paymentsDetected + 1
                                  /\ IF notifyOnPayment
                                     THEN /\ deliveries' = deliveries + 1
                                          /\ cycles'[c].pc = "hook"
                                     ELSE WentOn(c, i)
                             ELSE WentOn(c, i)
               /\ SampleFailed(c) => WentOn(c, i)
               /\ Resumed(c, "hook") => WentOn(c, i)
               /\ cycles'[c].pc = "done" => ~isPolling']_vars

\* stop() was called during the second cycle, which has since detected an
\* increase and issued its POST
C14_Witness ==
  /\ ~timer
  /\ leaked = 0
  /\ Len(cycles) = 2
  /\ cycles[2].pc = "hook"
  /\ paymentsDetected >= 1
  /\ deliveries >= 1

\* C15: lastPollAt is the completion time of the latest executed cycle,
\* whether that cycle succeeded or failed in part: when no cycle is in flight
\* and one has run, lastPollAt is the time of the latest cycle.
C15_LastPollAtEveryCycle ==
  (cycles # <<>> /\ InFlight = {}) => lastPollAt = clock

\* the case-folded addresses of the entries of a registry
Folded(reg) == { toLowerCase(reg[i].address) : i \in DOMAIN reg }

\* C16: after any sequence of discovery results the registry holds one entry
\* per case-folded address; a discovery result leaves every entry it finds as
\* it is (address casing, name, stored balance, last-checked time), adds no
\* entry for an address it finds tracked under any casing, and the tracked
\* addresses are the earlier ones and the listed ones.
C16_RegistryDeduplication ==
  /\ [](\A i, j \in DOMAIN registry :
          toLowerCase(registry[i].address) = toLowerCase(registry[j].address) => i = j)
  /\ [][clock' # clock
          => /\ \A i \in DOMAIN registry :
                  i \in DOMAIN registry' /\ registry'[i] = registry[i]
             /\ discoveryKind(seen'[1]) = "links"
                  => /\ Folded(registry') =
                          Folded(registry) \cup
                            { toLowerCase(seen'[1].links[n].router_address) :
                                n \in DOMAIN seen'[1].links }
                     /\ Len(registry') = Cardinality(Folded(registry'))]_vars

\* the address of a tracked account with a stored balance has been listed
\* again in another casing and without a name; the entry is as it was
C16_Witness ==
  /\ Len(registry) = 1
  /\ registry[1].address = <<"0", "x", "A", "a">>
  /\ registry[1].name = "Alpha"
  /\ registry[1].lastBalance > 0
  /\ registry[1].lastChecked > 0
  /\ seen # <<>>
  /\ discoveryKind(seen[1]) = "links"
  /\ seen[1].links = <<[router_address |-> <<"0", "x", "a", "a">>]>>

\* C17: accounts are never deregistered: every step keeps the entries of the
\* registry in place under their address, an entry that is added starts with
\* balance 0 and last-checked never, and a cycle that ends has issued the
\* balance read of every tracked account, listed by its discovery or not,
\* unless the client could not be set up.
C17_NeverDeregistered ==
  [][/\ \A i \in DOMAIN registry :
          /\ i \in DOMAIN registry'
          /\ registry'[i].address = registry[i].address
          /\ registry'[i].key = registry[i].key
     /\ \A i \in DOMAIN registry' \ DOMAIN registry :
          registry'[i].lastBalance = 0 /\ registry'[i].lastChecked = 0
     /\ \A c \in DOMAIN cycles :
          (cycles[c].pc # "done" /\ cycles'[c].pc = "done" /\ registry' # <<>>)
            => \/ io'.at = "setup"
               \/ io'.at \in {"check", "hook"} /\ cycles[c].idx = Len(registry)]_vars

\* the discovery call ended without a usable payload and without throwing:
\* non-2xx status, success = false, or no links
DiscoveryUnusable(kind) == kind \in {"notok", "nosuccess", "nolinks"}

\* C18: a discovery response that is non-2xx, has success = false or lacks
\* links leaves the registry unchanged; the cycle goes on to the sampling of
\* the tracked accounts, which starts at the first account and moves from
\* each account to the next, and records lastPollAt at the end of the loop
\* (at once when no account is tracked).
C18_UnusableDiscoveryAddsNothing ==
  [][\A c \in DOMAIN cycles :
       LET i == cycles[c].idx IN
       /\ (Resumed(c, "refresh") /\ DiscoveryUnusable(io'.kind))
            => /\ registry' = registry
               /\ IF registry = <<>>
                  THEN cycles'[c].pc = "done" /\ lastPollAt' = clock /\ ~isPolling'
                  ELSE cycles'[c].pc = "setup" /\ isPolling'
       /\ (Resumed(c, "setup") /\ io'.kind = "ok")
            => cycles'[c].pc = "check" /\ cycles'[c].idx = 1
       /\ Resumed(c, "check")
            => \/ cycles'[c].pc = "hook" /\ cycles'[c].idx = i
               \/ WentOn(c, i)
       /\ Resumed(c, "hook") => WentOn(c, i)]_vars

\* the discovery call of the second cycle has come back non-2xx; the account
\* sampled in the first cycle is still tracked and the cycle goes on
C18_Witness ==
  /\ Len(cycles) = 2
  /\ cycles[2].pc = "setup"
  /\ io.at = "refresh"
  /\ io.kind = "notok"
  /\ registry # <<>>
  /\ registry[1].lastChecked = 1

\* C19: getStatus(), called in any state, changes no state of the watcher; it
\* reports running = timer armed, the current paymentsDetected,
\* lastPollAt or null, and one entry per tracked account in insertion order
\* with its address, name and stored balance, with lastChecked 'never' for
\* the accounts whose balance was never stored and for no other.
C19_GetStatusPureRead ==
  /\ [](status # <<>>
          => LET s == status[1] IN
             /\ s.running = timer
             /\ s.paymentsDetected = paymentsDetected
             /\ s.lastPollAt = Null <=> lastPollAt = 0
             /\ lastPollAt # 0 => s.lastPollAt = toISOString(lastPollAt)
             /\ DOMAIN s.trackedRouters = DOMAIN registry
             /\ \A i \in DOMAIN registry :
                  /\ s.trackedRouters[i].address = registry[i].address
                  /\ s.trackedRouters[i].name = registry[i].name
                  /\ ParseUnits(s.trackedRouters[i].balance, Decimals) = registry[i].lastBalance
                  /\ s.trackedRouters[i].lastChecked = Never <=> registry[i].lastChecked = 0)
  /\ [][status' # <<>>
          => UNCHANGED <<registry, paymentsDetected, lastPollAt, timer, leaked, isPolling,
                         seeded, notifyOnPayment, clock, cycles, event, deliveries, io,
                         gatewayPort, seen>>]_vars

\* the status was read during the second cycle: one account was sampled in
\* the first cycle, another was added by the second and has not been read
C19_Witness ==
  /\ status # <<>>
  /\ isPolling
  /\ status[1].running
  /\ Len(status[1].trackedRouters) = 2
  /\ status[1].trackedRouters[1].lastChecked # Never
  /\ status[1].trackedRouters[2].lastChecked = Never
  /\ status[1].lastPollAt # Null

\* C20: a watcher whose gateway port is 0 or absent makes no delivery attempt
\* for any increase it detects.
C20_NoDeliveryWithoutPort ==
  gatewayPort <= 0 => deliveries = 0

\* this step stores raw 150 for an account that was seeded at raw 100, in a
\* watcher that has detected nothing so far
ScenarioBStep(c) ==
  /\ SampledOk(c)
  /\ seeded
  /\ paymentsDetected = 0
  /\ registry[cycles[c].idx].lastChecked # 0
  /\ registry[cycles[c].idx].lastBalance = 100
  /\ io'.val = 150

\* C21 as written: in scenario B the event carries the amounts padded to six
\* fractional digits, "0.000100", "0.000150" and "0.000050"; paymentsDetected
\* goes from 0 to 1 and one delivery is attempted.
C21_ScenarioB_SixDigits ==
  [][\A c \in DOMAIN cycles :
       ScenarioBStep(c)
         => /\ event' # <<>>
            /\ event'[1].previousBalance = <<"0", ".", "0", "0", "0", "1", "0", "0">>
            /\ event'[1].newBalance = <<"0", ".", "0", "0", "0", "1", "5", "0">>
            /\ event'[1].increase = <<"0", ".", "0", "0", "0", "0", "5", "0">>
            /\ paymentsDetected' = 1
            /\ deliveries' = deliveries + 1]_vars

\* C21: in scenario B one event is emitted; it carries the amounts with the
\* trailing zeros of the fraction trimmed, "0.0001", "0.00015" and "0.00005";
\* paymentsDetected goes from 0 to 1 and one delivery is attempted.
C21_ScenarioB ==
  [][\A c \in DOMAIN cycles :
       ScenarioBStep(c)
         => /\ event' # <<>>
            /\ event'[1].routerAddress = registry[cycles[c].idx].address
            /\ event'[1].previousBalance = <<"0", ".", "0", "0", "0", "1">>
            /\ event'[1].newBalance = <<"0", ".", "0", "0", "0", "1", "5">>
            /\ event'[1].increase = <<"0", ".", "0", "0", "0", "0", "5">>
            /\ paymentsDetected' = 1
            /\ deliveries' = deliveries + 1
            /\ cycles'[c].pc = "hook"]_vars

\* the event of scenario B has been emitted and its POST issued
C21_Witness ==
  /\ event # <<>>
  /\ event[1].increase = <<"0", ".", "0", "0", "0", "0", "5">>
  /\ paymentsDetected = 1
  /\ deliveries = 1
  /\ \E c \in DOMAIN cycles : cycles[c].pc = "hook"

\* the fractional part of a formatted amount: what follows the point
FracPart(str) ==
  LET dot == CHOOSE i \in DOMAIN str : str[i] = "." IN SubSeq(str, dot + 1, Len(str))

\* the integer part of a formatted amount: what precedes the point
IntPart(str) ==
  LET dot == CHOOSE i \in DOMAIN str : str[i] = "." IN SubSeq(str, 1, dot - 1)

\* the formatted amount times 10^decimals is the integer raw
ScalesTo(str, decimals, raw) ==
  LET digits == DigitsVal(IntPart(str) \o FracPart(str))
      n == Len(FracPart(str))
  IN IF n <= decimals
     THEN digits * Pow10(decimals - n) = raw
     ELSE digits = raw * Pow10(n - decimals)

\* C22: the formatted amount is digits, one point, digits; the fraction has
\* its trailing zeros trimmed but keeps at least 2 digits; parsing it and
\* scaling by 10^D gives V back; with D = 6 the values 0, 1, 999999,
\* 5000000, 5123000 give "0.00", "0.000001", "0.999999", "5.00", "5.123".
C22_FormatRoundTrip ==
  formatted # <<>>
    => LET V == formatted[1].value
           D == formatted[1].decimals
           str == formatted[1].text
       IN /\ Cardinality({ i \in DOMAIN str : str[i] = "." }) = 1
          /\ IntPart(str) # <<>>
          /\ Len(FracPart(str)) >= 2
          /\ Len(FracPart(str)) > 2 => str[Len(str)] # "0"
          /\ ScalesTo(str, D, V)
          /\ D = 6
               => /\ V = 0 => str = <<"0", ".", "0", "0">>
                  /\ V = 1 => str = <<"0", ".", "0", "0", "0", "0", "0", "1">>
                  /\ V = 999999 => str = <<"0", ".", "9", "9", "9", "9", "9", "9">>
                  /\ V = 5000000 => str = <<"5", ".", "0", "0">>
                  /\ V = 5123000 => str = <<"5", ".", "1", "2", "3">>

\* 5123000 has been formatted with 6 decimals
C22_Witness ==
  /\ formatted # <<>>
  /\ formatted[1].value = 5123000
  /\ formatted[1].decimals = 6
  /\ formatted[1].text = <<"5", ".", "1", "2", "3">>

\* C23: x402_pay calls the paying fetch only after a probe that returned 402,
\* with the price of the 402 response found to be within the effective
\* maximum (the maxPaymentUsd parameter if given, else the configured limit)
\* and dryRun not set; a call that has returned after a non-402 probe, a dry
\* run or a price above the maximum has made no payment and returned
\* paid = false.
C23_PayWithinLimit ==
  pay # <<>>
    => LET p == pay[1]
           max == IF p.maxPaymentUsd # <<>> THEN p.maxPaymentUsd[1] ELSE p.configMax
       IN /\ p.payments > 0
               => /\ p.payments = 1
                  /\ p.probe.type = "http"
                  /\ p.probe.status = 402
                  /\ ~p.dryRun
                  /\ p.priceNum # NaN
                  /\ p.priceNum <= max
          /\ (/\ p.pc = "returned"
              /\ \/ p.probe.status # 402
                 \/ p.dryRun
                 \/ (p.priceNum # NaN /\ p.priceNum > max))
               => (p.payments = 0 /\ ~p.paid)

\* the key of the plugin config that is mapped to the variable v
KeyOf(v) == CHOOSE k \in DOMAIN CONFIG_MAP : CONFIG_MAP[k] = v

\* C24: applyConfigBridge never changes a variable that is already set; a
\* mapped variable that is unset gets the value of the plugin config, if the
\* config has one; applying the same config a second time changes nothing.
C24_EnvWins ==
  [][\A v \in EnvVars :
       LET value == env'.applied[1][KeyOf(v)] IN
       /\ env.vars[v] # <<>> => env'.vars[v] = env.vars[v]
       /\ env.vars[v] = <<>>
            => env'.vars[v] = IF value.kind \in {"undefined", "null"}
                              THEN <<>>
                              ELSE <<String(value)>>
       /\ env'.applied = env.applied => env'.vars[v] = env.vars[v]]_vars

\* C25: a successful balance read stores the value read and the time of the
\* read, seeded or not, whatever the value is compared with the stored one;
\* no other step changes a stored balance or a last-checked time, and an
\* account that was never read has balance 0.
C25_StoreOnEverySample ==
  /\ [](\A i \in DOMAIN registry :
          registry[i].lastChecked = 0 => registry[i].lastBalance = 0)
  /\ [][\A i \in DOMAIN registry :
          IF \E c \in DOMAIN cycles : SampledOk(c) /\ cycles[c].idx = i
          THEN /\ registry'[i].lastBalance = io'.val
               /\ registry'[i].lastChecked = clock
               /\ clock > 0
          ELSE /\ registry'[i].lastBalance = registry[i].lastBalance
               /\ registry'[i].lastChecked = registry[i].lastChecked]_vars

\* the second cycle has stored the balance it read and emitted no event: the
\* balance had not grown
C25_Witness ==
  /\ seeded
  /\ clock = 2
  /\ io.at = "check"
  /\ io.kind = "ok"
  /\ \E i \in DOMAIN registry :
       /\ registry[i].lastChecked = 2
       /\ registry[i].lastBalance = io.val
       /\ io.val = 0
  /\ event = <<>>
  /\ paymentsDetected = 0

\* C26: a failed balance read leaves the account's stored balance and
\* last-checked time as they were and emits no event; a later successful
\* read of the account is compared with the balance that is still stored, the
\* one of its last successful read.
C26_FailedReadKeepsStored ==
  [][\A c \in DOMAIN cycles :
       LET i == cycles[c].idx
           previous == registry[i].lastBalance
       IN
       /\ SampleFailed(c)
            => /\ registry'[i].lastBalance = previous
               /\ registry'[i].lastChecked = registry[i].lastChecked
               /\ event' = event
               /\ paymentsDetected' = paymentsDetected
               /\ deliveries' = deliveries
       /\ (SampledOk(c) /\ seeded)
            => IF io'.val > previous
               THEN /\ event' # <<>>
                    /\ event'[1].detectedAt = clock
                    /\ ParseUnits(event'[1].previousBalance, Decimals) = previous
                    /\ ParseUnits(event'[1].increase, Decimals) = io'.val - previous
               ELSE event' = event]_vars

\* the read of an account failed in the second cycle: the balance and the time
\* of the first cycle's read are still stored and no event was emitted
C26_Witness ==
  /\ clock = 2
  /\ io.at = "check"
  /\ io.kind = "fail"
  /\ event = <<>>
  /\ Len(registry) = 1
  /\ registry[1].lastChecked = 1
  /\ registry[1].lastBalance > 0

\* C27: a timer callback that finds the guard closed changes no field of the
\* watcher and issues no call; no cycle begins in a step in which the guard
\* is closed or a callback is dropped, and the step that ends a cycle begins
\* none: at most one cycle has begun per callback or start() that found the
\* guard open.
C27_DroppedFire ==
  [][/\ dropped' # dropped
          => /\ isPolling
             /\ UNCHANGED <<registry, paymentsDetected, lastPollAt, seeded, isPolling,
                            timer, leaked, clock, cycles, event, deliveries, io>>
     /\ Len(cycles') # Len(cycles)
          => /\ ~isPolling
             /\ dropped' = dropped
             /\ Len(cycles') = Len(cycles) + 1
             /\ \A c \in DOMAIN cycles : cycles'[c] = cycles[c]
     /\ (\E c \in DOMAIN cycles : cycles[c].pc # "done" /\ cycles'[c].pc = "done")
          => Len(cycles') = Len(cycles)]_vars

\* a callback was dropped while the first cycle was in flight; the cycle has
\* ended and no second cycle has begun
C27_Witness ==
  /\ dropped = <<1>>
  /\ Len(cycles) = 1
  /\ InFlight = {}
  /\ ~isPolling
  /\ clock = 1

C29_SilentWatcherDetects ==
  /\ [](~notifyOnPayment
          => /\ deliveries = 0
             /\ \A c \in DOMAIN cycles : cycles[c].pc # "hook"
             /\ io.at # "hook")
  /\ [][\A c \in DOMAIN cycles :
          LET i == cycles[c].idx
              previous == registry[i].lastBalance
          IN (~notifyOnPayment /\ SampledOk(c) /\ seeded /\ io'.val > previous)
               => /\ paymentsDetected' = paymentsDetected + 1
                  /\ registry'[i].lastBalance = io'.val
                  /\ event' # <<>>
                  /\ ParseUnits(event'[1].increase, Decimals) = io'.val - previous
                  /\ deliveries' = 0
                  /\ WentOn(c, i)]_vars

\* a watcher with notifyOnPayment = false has detected an increase and issued
\* no POST
C29_Witness ==
  /\ ~notifyOnPayment
  /\ paymentsDetected > 0
  /\ event # <<>>
  /\ deliveries = 0

\* C30: paymentsDetected starts at 0 and no step lowers it; a step raises it,
\* and then by exactly 1, if and only if the step is a successful read on a
\* seeded watcher of a balance greater than the stored one, and these are the
\* steps that build an event: the counter is the number of events built since
\* the watcher was created. A read of a lower or equal balance, a failed
\* read, a completed or failed delivery, a discovery, start(), stop() and a
\* timer callback leave it as it is.
C30_CounterCountsEvents ==
  /\ [](/\ paymentsDetected >= 0
        /\ (clock = 0 => paymentsDetected = 0)
        /\ (event # <<>> => paymentsDetected >= 1))
  /\ [][LET detection ==
             \E c \in DOMAIN cycles :
                /\ SampledOk(c)
                /\ seeded
                /\ io'.val > registry[cycles[c].idx].lastBalance
        IN /\ paymentsDetected' = IF detection THEN paymentsDetected + 1
                                   ELSE paymentsDetected
           /\ detection <=> (event' # <<>> /\ event' # event)
           /\ \A c \in DOMAIN cycles :
                (SampleFailed(c) \/ Resumed(c, "hook") \/ Resumed(c, "refresh")
                   \/ Resumed(c, "setup"))
                  => paymentsDetected' = paymentsDetected
           /\ Len(cycles') # Len(cycles) => paymentsDetected' = paymentsDetected]_vars

\* two increases have been detected, the later one in the second cycle, and
\* the counter is 2
C30_Witness ==
  /\ paymentsDetected = 2
  /\ clock = 2
  /\ event # <<>>
  /\ event[1].detectedAt = 2

\* C35: at most one interval is armed at any time, the one this.timer refers
\* to: when this.timer is null (getStatus().running = false) no interval is
\* left that can still call poll().
C35_OneTimerArmed ==
  /\ (IF timer THEN 1 ELSE 0) + leaked <= 1
  /\ ~timer => leaked = 0

\* C33: stop() on a watcher whose timer handle is null, never started or
\* stopped before, changes no field of the watcher; a stop() that finds the
\* handle changes the handle and nothing else, so that a second stop() leaves
\* the state the first one left.
C33_StopIdempotent ==
  [][/\ stopped' # stopped
          => /\ ~timer
             /\ UNCHANGED <<registry, paymentsDetected, lastPollAt, timer, leaked,
                            isPolling, seeded, notifyOnPayment, clock, cycles, event,
                            deliveries, io, gatewayPort>>
     /\ (timer /\ ~timer')
          => /\ stopped' = stopped
             /\ UNCHANGED <<registry, paymentsDetected, lastPollAt, leaked, isPolling,
                            seeded, notifyOnPayment, clock, cycles, event, deliveries,
                            io, gatewayPort>>]_vars

\* stop() was called again on a stopped watcher while a cycle was in flight
C33_Witness ==
  /\ stopped = <<1>>
  /\ ~timer
  /\ InFlight # {}
  /\ isPolling

\* C34: whenever x402_distribute has called writeContract, the balance read
\* was not 0 and the amount passed is greater than 0 and at most the balance
\* read; without an amount parameter the amount passed is the balance read.
C34_DistributeWithinBalance ==
  (dist # <<>> /\ dist[1].submitted # <<>>)
    => LET d == dist[1] IN
       /\ d.balance # <<>>
       /\ d.balance[1] > 0
       /\ d.submitted[1] > 0
       /\ d.submitted[1] <= d.balance[1]
       /\ d.amount = <<>> => d.submitted[1] = d.balance[1]

\* C36: seeded never goes back to false; a step that clears or sets the timer
\* handle, stop() or start(), leaves the registry with its stored balances,
\* paymentsDetected and lastPollAt as they are; the cycle run by a start()
\* on a seeded watcher reports an account it has read before if and only if
\* the balance read is greater than the one stored before the restart.
C36_StateSurvivesRestart ==
  [][/\ seeded => seeded'
     /\ (timer' # timer \/ leaked' # leaked)
          => UNCHANGED <<registry, paymentsDetected, lastPollAt, deliveries>>
     /\ \A c \in DOMAIN cycles' \ DOMAIN cycles :
          UNCHANGED <<registry, paymentsDetected, lastPollAt, deliveries>>
     /\ \A c \in DOMAIN cycles :
          LET i == cycles[c].idx
              previous == registry[i].lastBalance
          IN (SampledOk(c) /\ cycles[c].owner = "start" /\ c > 1 /\ seeded
                /\ registry[i].lastChecked # 0)
               => IF io'.val > previous
                  THEN /\ paymentsDetected' = paymentsDetected + 1
                       /\ event' # <<>>
                       /\ ParseUnits(event'[1].previousBalance, Decimals) = previous
                  ELSE /\ paymentsDetected' = paymentsDetected
                       /\ event' = event]_vars

\* the watcher was stopped and started again; the cycle of the second start()
\* has detected an increase over a balance stored before the stop
C36_Witness ==
  /\ Len(cycles) = 2
  /\ cycles[2].owner = "start"
  /\ timer
  /\ leaked = 0
  /\ seeded
  /\ event # <<>>
  /\ event[1].detectedAt = 2
  /\ ParseUnits(event[1].previousBalance, Decimals) > 0

\* C32: while a cycle is in the loop over the registry no entry is inserted
\* and no address changes; at most one cycle is past its discovery at any
\* time, and an entry is written only by the one cycle in flight, when it
\* resumes from the balance read of that entry; calls of start(), stop() and
\* getStatus() and timer callbacks in between change none of this.
C32_NoInsertWhileIterating ==
  /\ [](Cardinality({ c \in DOMAIN cycles : cycles[c].pc \in {"setup", "check", "hook"} }) <= 1)
  /\ [][/\ (\E c \in DOMAIN cycles : cycles[c].pc \in {"check", "hook"})
             => /\ Len(registry') = Len(registry)
                /\ \A i \in DOMAIN registry : registry'[i].address = registry[i].address
        /\ \A i \in DOMAIN registry :
             registry'[i] # registry[i]
               => \E c \in DOMAIN cycles :
                    /\ InFlight = {c}
                    /\ Resumed(c, "check")
                    /\ cycles[c].idx = i]_vars

\* getStatus() was called while the second cycle was in the loop, after the
\* read of its first account and before the read of its second
C32_Witness ==
  /\ status # <<>>
  /\ Len(registry) = 2
  /\ clock = 2
  /\ \E c \in InFlight : cycles[c].pc = "check" /\ cycles[c].idx = 2
  /\ registry[1].lastChecked = 2

\* C31: when every external call returns or fails in the end, a cycle in
\* flight ends and the guard is released; and unless the watcher is without
\* an armed interval again and again, cycles go on beginning (up to the
\* number of cycles followed).
C31_CyclesTerminate ==
  /\ (isPolling \/ InFlight # {}) ~> (~isPolling /\ InFlight = {})
  /\ ([]<>(~timer /\ leaked = 0)) \/ <>(clock = MaxCycles)

\* the second cycle, begun by the timer, has ended after a delivery: the
\* guard is open and the interval still armed
C31_Witness ==
  /\ Len(cycles) = 2
  /\ InFlight = {}
  /\ ~isPolling
  /\ timer
  /\ lastPollAt = 2
  /\ io.at = "hook"

====
